---- MODULE Spec2Model ----
(***************************************************************************)
(* A model of clean_inventory_system.py: the module-wide ledger            *)
(* stock_data, the operations add_item, remove_item, get_qty,              *)
(* check_low_items, load_data and save_data, and the inventory file they   *)
(* read and write.                                                         *)
(*                                                                         *)
(* Python values are tagged records ([t |-> "int", n |-> 3]), so that the  *)
(* isinstance tests of the code are tests of the tag.  A dict is an        *)
(* insertion-ordered sequence of [k, v] entries with distinct keys, as in  *)
(* CPython.  The text of the inventory file is a tree of JSON tokens; a    *)
(* number is kept as its lexeme (a sequence of characters) and is          *)
(* formatted by json.dump and parsed by json.load digit by digit.          *)
(*                                                                         *)
(* Log lines (logging.info, logs.append, print) are output only: no        *)
(* operation reads them back, and they are not part of the state.          *)
(***************************************************************************)
EXTENDS Integers, Sequences, FiniteSets, TLC

VARIABLES stock_data, file, snapshot, last

vars == <<stock_data, file, snapshot, last>>

(***************************************************************************)
(* Bounds of the model.                                                    *)
(***************************************************************************)
\* The largest quantity an add may bring an entry to.
MaxQty == 2

\* The largest threshold passed to check_low_items.
MaxThreshold == 3

(***************************************************************************)
(* Python values.                                                          *)
(***************************************************************************)
PyNone == [t |-> "NoneType"]

PyInt(n) == [t |-> "int", n |-> n]

PyStr(s) == [t |-> "str", s |-> s]

PyBool(b) == [t |-> "bool", b |-> b]

\* A float: finite (with its integer part, the way int() truncates it),
\* an infinity, or a NaN.
PyFloat(cls, trunc) == [t |-> "float", cls |-> cls, trunc |-> trunc]

PyList(items) == [t |-> "list", items |-> items]

PyDict(items) == [t |-> "dict", items |-> items]

\* isinstance(x, str)
IsStr(x) == x.t = "str"

\* isinstance(x, int): bool is a subclass of int.
IsInt(x) == x.t \in {"int", "bool"}

\* The integer an int (or bool) value stands for in arithmetic.
IntOf(x) == IF x.t = "bool" THEN (IF x.b THEN 1 ELSE 0) ELSE x.n

(***************************************************************************)
(* dict operations on an insertion-ordered sequence of entries.            *)
(***************************************************************************)
DictKeys(d) == {d[i].k : i \in 1..Len(d)}

\* k in d
DictHas(d, k) == \E i \in 1..Len(d) : d[i].k = k

\* d[k], for a key that is present
DictAt(d, k) == d[CHOOSE i \in 1..Len(d) : d[i].k = k].v

\* d.get(k, default)
DictGet(d, k, default) == IF DictHas(d, k) THEN DictAt(d, k) ELSE default

\* d[k] = v: an existing key keeps its position, a new key goes last.
DictSet(d, k, v) ==
    IF DictHas(d, k)
    THEN [i \in 1..Len(d) |-> IF d[i].k = k THEN [k |-> k, v |-> v] ELSE d[i]]
    ELSE Append(d, [k |-> k, v |-> v])

\* del d[k]
DictDel(d, k) == SelectSeq(d, LAMBDA e : e.k # k)

(***************************************************************************)
(* The outcome of a call: the exception it raised ("none" when it          *)
(* returned), the exception's message, and the value returned.             *)
(***************************************************************************)
Returned(op, ret) == [op |-> op, exc |-> "none", msg |-> "", ret |-> ret]

Raised(op, exc, msg) == [op |-> op, exc |-> exc, msg |-> msg, ret |-> PyNone]

(***************************************************************************)
(* Arguments the callers pass.                                             *)
(***************************************************************************)
Items == {"apple", "banana"}

ItemArgs == {PyStr(s) : s \in Items \cup {""}} \cup {PyNone}

QtyArgs == {PyInt(n) : n \in -1..(MaxQty + 1)} \cup {PyNone}

\* check_low_items called with no argument.
Omitted == [t |-> "omitted"]

ThresholdArgs == {PyInt(n) : n \in -1..MaxThreshold} \cup {PyNone, Omitted}

(***************************************************************************)
(* add_item(item, qty)                                                     *)
(***************************************************************************)
\* A variant that lacks the test of the sign of qty.
AddItemError_noSignCheck(item, qty) ==
    IF ~IsStr(item) \/ item.s = ""
    THEN [exc |-> "TypeError", msg |-> "item must be a non-empty string"]
    ELSE IF ~IsInt(qty)
    THEN [exc |-> "TypeError", msg |-> "qty must be an integer"]
    ELSE [exc |-> "none", msg |-> ""]

\* The validation of add_item: the exception it raises, or "none".
AddItemError(item, qty) ==
    IF ~IsStr(item) \/ item.s = ""
    THEN [exc |-> "TypeError", msg |-> "item must be a non-empty string"]
    ELSE IF ~IsInt(qty)
    THEN [exc |-> "TypeError", msg |-> "qty must be an integer"]
    ELSE IF IntOf(qty) < 0
    THEN [exc |-> "ValueError", msg |-> "qty must be non-negative"]
    ELSE [exc |-> "none", msg |-> ""]

\* A variant that stores qty instead of adding it to the previous quantity.
AddToLedger_overwrite(d, k, qty) == DictSet(d, k, qty)

\* prev = stock_data.get(item, 0); stock_data[item] = prev + qty
AddToLedger(d, k, qty) == DictSet(d, k, DictGet(d, k, 0) + qty)

add_item(item, qty) ==
    LET err == AddItemError(item, qty) IN
    /\ IF err.exc # "none"
       THEN /\ last' = Raised("add_item", err.exc, err.msg)
            /\ UNCHANGED stock_data
       ELSE /\ DictGet(stock_data, item.s, 0) + IntOf(qty) <= MaxQty
            /\ stock_data' = AddToLedger(stock_data, item.s, IntOf(qty))
            /\ last' = Returned("add_item", PyNone)
    /\ UNCHANGED <<file, snapshot>>

(***************************************************************************)
(* remove_item(item, qty)                                                  *)
(***************************************************************************)
\* A variant that lacks the test of the stock against qty.
RemoveItemError_noStockCheck(d, item, qty) ==
    IF ~IsStr(item) \/ item.s = ""
    THEN [exc |-> "TypeError", msg |-> "item must be a non-empty string"]
    ELSE IF ~IsInt(qty)
    THEN [exc |-> "TypeError", msg |-> "qty must be an integer"]
    ELSE IF IntOf(qty) <= 0
    THEN [exc |-> "ValueError", msg |-> "qty must be positive"]
    ELSE IF ~DictHas(d, item.s)
    THEN [exc |-> "KeyError", msg |-> "Item not found in stock"]
    ELSE [exc |-> "none", msg |-> ""]

\* The checks of remove_item, in the order of the code: the exception it
\* raises on ledger d, or "none".
RemoveItemError(d, item, qty) ==
    IF ~IsStr(item) \/ item.s = ""
    THEN [exc |-> "TypeError", msg |-> "item must be a non-empty string"]
    ELSE IF ~IsInt(qty)
    THEN [exc |-> "TypeError", msg |-> "qty must be an integer"]
    ELSE IF IntOf(qty) <= 0
    THEN [exc |-> "ValueError", msg |-> "qty must be positive"]
    ELSE IF ~DictHas(d, item.s)
    THEN [exc |-> "KeyError", msg |-> "Item not found in stock"]
    ELSE IF DictAt(d, item.s) < IntOf(qty)
    THEN [exc |-> "ValueError", msg |-> "Not enough stock"]
    ELSE [exc |-> "none", msg |-> ""]

\* A variant that keeps an entry whose quantity reached zero.
RemoveFromLedger_keepZero(d, k, qty) == DictSet(d, k, DictAt(d, k) - qty)

\* stock_data[item] -= qty; if stock_data[item] == 0: del stock_data[item]
RemoveFromLedger(d, k, qty) ==
    LET d2 == DictSet(d, k, DictAt(d, k) - qty) IN
    IF DictAt(d2, k) = 0 THEN DictDel(d2, k) ELSE d2

remove_item(item, qty) ==
    LET err == RemoveItemError(stock_data, item, qty) IN
    /\ IF err.exc # "none"
       THEN /\ last' = Raised("remove_item", err.exc, err.msg)
            /\ UNCHANGED stock_data
       ELSE /\ stock_data' = RemoveFromLedger(stock_data, item.s, IntOf(qty))
            /\ last' = Returned("remove_item", PyNone)
    /\ UNCHANGED <<file, snapshot>>

(***************************************************************************)
(* get_qty(item)                                                           *)
(***************************************************************************)
\* stock_data.get(item, 0): the quantity get_qty returns for a valid name
Stock(d, k) == DictGet(d, k, 0)

get_qty(item) ==
    /\ IF ~IsStr(item) \/ item.s = ""
       THEN last' = Raised("get_qty", "TypeError", "item must be a non-empty string")
       ELSE last' = Returned("get_qty", PyInt(Stock(stock_data, item.s)))
    /\ UNCHANGED <<stock_data, file, snapshot>>

(***************************************************************************)
(* check_low_items(threshold = 5)                                          *)
(***************************************************************************)
DefaultThreshold == 5

\* A variant that also lists an item whose quantity equals the threshold.
IsLow_inclusive(qty, threshold) == qty <= threshold

\* The test of the comprehension: qty < threshold
IsLow(qty, threshold) == qty < threshold

\* [name for name, qty in stock_data.items() if qty < threshold]
LowItems(d, threshold) ==
    LET sel == SelectSeq(d, LAMBDA e : IsLow(e.v, threshold)) IN
    [i \in 1..Len(sel) |-> sel[i].k]

check_low_items(arg) ==
    LET threshold == IF arg = Omitted THEN PyInt(DefaultThreshold) ELSE arg IN
    /\ IF ~IsInt(threshold) \/ IntOf(threshold) < 0
       THEN last' = Raised("check_low_items", "ValueError",
                           "threshold must be a non-negative integer")
       ELSE last' = Returned("check_low_items",
                             PyList(LowItems(stock_data, IntOf(threshold))))
    /\ UNCHANGED <<stock_data, file, snapshot>>

(***************************************************************************)
(* print_data()                                                            *)
(***************************************************************************)
\* What print_data writes: the header, then one line per entry.
Report(d) ==
    [t |-> "stdout", header |-> "Items Report",
     lines |-> [i \in 1..Len(d) |-> [name |-> d[i].k, qty |-> d[i].v]]]

print_data ==
    /\ last' = Returned("print_data", Report(stock_data))
    /\ UNCHANGED <<stock_data, file, snapshot>>

(***************************************************************************)
(* JSON numbers: formatting (json.dump) and parsing (json.load).           *)
(***************************************************************************)
Digits == <<"0", "1", "2", "3", "4", "5", "6", "7", "8", "9">>

DigitChar(n) == Digits[n + 1]

DigitVal(c) == CHOOSE n \in 0..9 : Digits[n + 1] = c

RECURSIVE NatToLex(_)
NatToLex(n) ==
    IF n < 10 THEN <<DigitChar(n)>>
    ELSE Append(NatToLex(n \div 10), DigitChar(n % 10))

\* The decimal text json.dump writes for an int.
IntToLex(n) == IF n < 0 THEN <<"-">> \o NatToLex(-n) ELSE NatToLex(n)

RECURSIVE LexToNat(_)
LexToNat(cs) ==
    IF cs = <<>> THEN 0
    ELSE LexToNat(SubSeq(cs, 1, Len(cs) - 1)) * 10 + DigitVal(cs[Len(cs)])

RECURSIVE Pow10(_)
Pow10(n) == IF n = 0 THEN 1 ELSE 10 * Pow10(n - 1)

\* The first position of character c in cs, 0 when it is absent.
IndexOf(cs, c) ==
    IF \E i \in 1..Len(cs) : cs[i] = c
    THEN CHOOSE i \in 1..Len(cs) : cs[i] = c /\ \A j \in 1..(i - 1) : cs[j] # c
    ELSE 0

\* The largest decimal exponent of a finite double is 308: a number of 310
\* digits or more before the point parses to float('inf').
MaxFloatDigits == 309

\* json.load on a number lexeme  -? digits (. digits)? (e -? digits)?  :
\* an int when it has neither fraction nor exponent, else a float.
ParseNumber(lex) ==
    LET neg   == lex[1] = "-"
        body  == IF neg THEN Tail(lex) ELSE lex
        ePos  == IndexOf(body, "e")
        mant  == IF ePos = 0 THEN body ELSE SubSeq(body, 1, ePos - 1)
        expo  == IF ePos = 0 THEN <<>> ELSE SubSeq(body, ePos + 1, Len(body))
        dot   == IndexOf(mant, ".")
        whole == IF dot = 0 THEN mant ELSE SubSeq(mant, 1, dot - 1)
        frac  == IF dot = 0 THEN <<>> ELSE SubSeq(mant, dot + 1, Len(mant))
        sign  == IF neg THEN -1 ELSE 1
        exp   == IF expo = <<>> THEN 0
                 ELSE IF expo[1] = "-" THEN -LexToNat(Tail(expo))
                 ELSE LexToNat(expo)
        m     == LexToNat(whole \o frac)
        scale == exp - Len(frac)
    IN  IF ePos = 0 /\ dot = 0
        THEN PyInt(sign * LexToNat(whole))
        ELSE IF m # 0 /\ Len(NatToLex(m)) + scale > MaxFloatDigits
        THEN PyFloat("inf", 0)
        ELSE PyFloat("finite",
                     sign * (IF scale >= 0 THEN m * Pow10(scale)
                             ELSE m \div Pow10(-scale)))

(***************************************************************************)
(* The text of the inventory file, as a tree of JSON tokens.               *)
(***************************************************************************)
JNumber(lex) == [t |-> "number", lex |-> lex]

JString(s) == [t |-> "string", s |-> s]

\* true, false, null, and the NaN and Infinity that Python's json accepts
JLiteral(w) == [t |-> "literal", w |-> w]

\* An array; its elements play no part in load_data.
JArray == [t |-> "array"]

\* { key : val, ... } with the members in the order of the text
JObject(members) == [t |-> "object", members |-> members]

Member(key, val) == [key |-> key, val |-> val]

\* Text that is no JSON document (an empty or truncated file, say).
Garbage == [t |-> "garbage"]

\* No file at the path.
NoFile == [t |-> "missing"]

\* Whether the text parses: the keys of an object must be strings.
RECURSIVE WellFormed(_)
WellFormed(node) ==
    /\ node.t # "garbage"
    /\ node.t = "object" =>
         \A i \in 1..Len(node.members) :
            /\ node.members[i].key.t = "string"
            /\ WellFormed(node.members[i].val)

\* The Python value of a well-formed text.  An object becomes a dict: a
\* repeated key keeps its first position and takes its last value.
RECURSIVE Decode(_)
Decode(node) ==
    LET RECURSIVE Pairs(_, _)
        Pairs(ms, acc) ==
            IF ms = <<>> THEN acc
            ELSE Pairs(Tail(ms),
                       DictSet(acc, PyStr(Head(ms).key.s), Decode(Head(ms).val)))
    IN  CASE node.t = "number"  -> ParseNumber(node.lex)
          [] node.t = "string"  -> PyStr(node.s)
          [] node.t = "array"   -> PyList(<<>>)
          [] node.t = "object"  -> PyDict(Pairs(node.members, <<>>))
          [] node.t = "literal" ->
               CASE node.w = "true"  -> PyBool(TRUE)
                 [] node.w = "false" -> PyBool(FALSE)
                 [] node.w = "null"  -> PyNone
                 [] node.w = "NaN"   -> PyFloat("nan", 0)
                 [] OTHER            -> PyFloat("inf", 0)

\* with open(file) as f: data = json.load(f)
JsonLoad(f) ==
    IF f = NoFile THEN [exc |-> "FileNotFoundError", value |-> PyNone]
    ELSE IF ~WellFormed(f) THEN [exc |-> "JSONDecodeError", value |-> PyNone]
    ELSE [exc |-> "none", value |-> Decode(f)]

\* json.dump(stock_data, f, indent=2): the members in the dict's order
JsonDump(d) ==
    JObject([i \in 1..Len(d) |-> Member(JString(d[i].k), JNumber(IntToLex(d[i].v)))])

(***************************************************************************)
(* int(v)                                                                  *)
(***************************************************************************)
\* The integers whose decimal text int() is given as a string.
StrInts == -(MaxQty + 1)..(MaxQty + 1)

IntCoerce(v) ==
    CASE v.t = "int"   -> [exc |-> "none", n |-> v.n]
      [] v.t = "bool"  -> [exc |-> "none", n |-> IF v.b THEN 1 ELSE 0]
      [] v.t = "float" ->
           CASE v.cls = "finite" -> [exc |-> "none", n |-> v.trunc]
             [] v.cls = "inf"    -> [exc |-> "OverflowError", n |-> 0]
             [] OTHER            -> [exc |-> "ValueError", n |-> 0]
      [] v.t = "str"   ->
           IF \E n \in StrInts : ToString(n) = v.s
           THEN [exc |-> "none", n |-> CHOOSE n \in StrInts : ToString(n) = v.s]
           ELSE [exc |-> "ValueError", n |-> 0]
      [] OTHER         -> [exc |-> "TypeError", n |-> 0]

(***************************************************************************)
(* load_data(file)                                                         *)
(***************************************************************************)
\* The exceptions the inner try of the loop catches.
SkippedOnLoad == {"TypeError", "ValueError"}

\* A variant of the loop that also skips a value that is falsy (0).
RECURSIVE Clean_skipFalsy(_, _)
Clean_skipFalsy(items, cleaned) ==
    IF items = <<>> THEN [exc |-> "none", cleaned |-> cleaned]
    ELSE LET k == Head(items).k
             r == IntCoerce(Head(items).v)
         IN  IF ~IsStr(k) THEN Clean_skipFalsy(Tail(items), cleaned)
             ELSE IF r.exc = "none" /\ r.n # 0
             THEN Clean_skipFalsy(Tail(items), DictSet(cleaned, k.s, r.n))
             ELSE IF r.exc = "none" \/ r.exc \in SkippedOnLoad
             THEN Clean_skipFalsy(Tail(items), cleaned)
             ELSE [exc |-> r.exc, cleaned |-> cleaned]

\* for k, v in data.items(): ... cleaned[k] = int(v)
\* The loop ends early with the exception that int(v) lets through.
RECURSIVE Clean(_, _)
Clean(items, cleaned) ==
    IF items = <<>> THEN [exc |-> "none", cleaned |-> cleaned]
    ELSE LET k == Head(items).k
             r == IntCoerce(Head(items).v)
         IN  IF ~IsStr(k) THEN Clean(Tail(items), cleaned)
             ELSE IF r.exc = "none"
             THEN Clean(Tail(items), DictSet(cleaned, k.s, r.n))
             ELSE IF r.exc \in SkippedOnLoad THEN Clean(Tail(items), cleaned)
             ELSE [exc |-> r.exc, cleaned |-> cleaned]

\* The body of the try: the exception it ends with ("none" when it runs to
\* its end) and the mapping it built.
LoadTry(f) ==
    LET got == JsonLoad(f) IN
    IF got.exc # "none" THEN [exc |-> got.exc, cleaned |-> <<>>]
    ELSE IF got.value.t # "dict" THEN [exc |-> "ValueError", cleaned |-> <<>>]
    ELSE Clean(got.value.items, <<>>)

\* A variant without the last, catch-all clause.
LoadHandlers_noCatchAll ==
    << [catches |-> "FileNotFoundError", msg |-> "Inventory file not found"],
       [catches |-> "JSONDecodeError",   msg |-> "Invalid JSON"] >>

\* The except clauses of load_data, in order, each with the line it logs.
LoadHandlers ==
    << [catches |-> "FileNotFoundError", msg |-> "Inventory file not found"],
       [catches |-> "JSONDecodeError",   msg |-> "Invalid JSON"],
       [catches |-> "Exception",         msg |-> "Unexpected error while loading data"] >>

\* Every exception of the model derives from Exception.
Catches(handler, exc) == handler.catches = exc \/ handler.catches = "Exception"

load_data ==
    LET r  == LoadTry(file)
        hs == SelectSeq(LoadHandlers, LAMBDA h : Catches(h, r.exc))
    IN  /\ IF r.exc = "none"
           THEN /\ stock_data' = r.cleaned
                /\ last' = [Returned("load_data", PyNone) EXCEPT !.msg = "Loaded inventory"]
           ELSE IF hs # <<>>
           THEN /\ stock_data' = <<>>
                /\ last' = [Returned("load_data", PyNone) EXCEPT !.msg = hs[1].msg]
           ELSE /\ last' = Raised("load_data", r.exc, "")
                /\ UNCHANGED stock_data
        /\ UNCHANGED <<file, snapshot>>

(***************************************************************************)
(* save_data(file)                                                         *)
(***************************************************************************)
NoSnapshot == [valid |-> FALSE, ledger |-> <<>>]

\* The write succeeds: the file holds the dump of the ledger.
save_data_ok ==
    /\ file' = JsonDump(stock_data)
    /\ snapshot' = [valid |-> TRUE, ledger |-> stock_data]
    /\ last' = Returned("save_data", PyNone)
    /\ UNCHANGED stock_data

\* The write fails with OSError, which is logged and raised again: open()
\* failed and the file is as it was, or the write stopped part-way and the
\* file is truncated.
save_data_fail ==
    /\ file' \in {file, Garbage}
    /\ snapshot' = IF file' = file THEN snapshot ELSE NoSnapshot
    /\ last' = Raised("save_data", "OSError", "Failed to write inventory")
    /\ UNCHANGED stock_data

(***************************************************************************)
(* The environment: anything may be put at the path between two calls.     *)
(***************************************************************************)
Num(n) == JNumber(IntToLex(n))

Str(s) == JString(s)

OtherFiles ==
    { NoFile,
      Garbage,
      JArray,
      Num(1),
      \* {"apple": 1, "banana": "x", 2: 3}
      JObject(<<Member(Str("apple"), Num(1)), Member(Str("banana"), Str("x")),
                Member(Num(2), Num(1))>>),
      \* {"apple": 1, "banana": "x"}
      JObject(<<Member(Str("apple"), Num(1)), Member(Str("banana"), Str("x"))>>),
      \* {"apple": -1}
      JObject(<<Member(Str("apple"), Num(-1))>>),
      \* {"banana": 0}
      JObject(<<Member(Str("banana"), Num(0))>>),
      \* {"apple": 1, "banana": 1e999}
      JObject(<<Member(Str("apple"), Num(1)),
                Member(Str("banana"), JNumber(<<"1", "e", "9", "9", "9">>))>>),
      \* {"apple": 1.5, "banana": "2"}
      JObject(<<Member(Str("apple"), JNumber(<<"1", ".", "5">>)),
                Member(Str("banana"), Str("2"))>>),
      \* {"apple": null, "banana": true, "apple": 2}
      JObject(<<Member(Str("apple"), JLiteral("null")),
                Member(Str("banana"), JLiteral("true")),
                Member(Str("apple"), Num(2))>>),
      \* {"apple": 3, "banana": 5}
      JObject(<<Member(Str("apple"), Num(3)), Member(Str("banana"), Num(5))>>),
      \* {"apple": NaN, "banana": []}
      JObject(<<Member(Str("apple"), JLiteral("NaN")),
                Member(Str("banana"), JArray)>>) }

write_file(text) ==
    /\ file' = text
    /\ snapshot' = NoSnapshot
    /\ last' = Returned("write_file", PyNone)
    /\ UNCHANGED stock_data

(***************************************************************************)
(* The specification.                                                      *)
(***************************************************************************)
Init ==
    /\ stock_data = <<>>
    /\ file = NoFile
    /\ snapshot = NoSnapshot
    /\ last = Returned("import", PyNone)

Next ==
    \/ \E item \in ItemArgs, qty \in QtyArgs : add_item(item, qty)
    \/ \E item \in ItemArgs, qty \in QtyArgs : remove_item(item, qty)
    \/ \E item \in ItemArgs : get_qty(item)
    \/ \E arg \in ThresholdArgs : check_low_items(arg)
    \/ print_data
    \/ load_data
    \/ save_data_ok
    \/ save_data_fail
    \/ \E text \in OtherFiles : write_file(text)

Spec == Init /\ [][Next]_vars

(***************************************************************************)
(* The error kinds of the specification, by the check of the code that     *)
(* failed (each check has its own message).                                *)
(***************************************************************************)
ErrorKind(l) ==
    IF l.exc = "none" THEN "none"
    ELSE IF l.msg = "Item not found in stock" THEN "NotFound"
    ELSE IF l.msg = "Not enough stock" THEN "InsufficientStock"
    ELSE IF l.msg = "Failed to write inventory" THEN "IOFailure"
    ELSE "InvalidArgument"

\* A non-empty item name.
ValidItem(item) == IsStr(item) /\ item.s # ""

\* Every key but k has the same entry, or none, in d1 and d2.
OthersUnchanged(d1, d2, k) ==
    \A o \in (DictKeys(d1) \cup DictKeys(d2)) \ {k} :
        /\ DictHas(d1, o) <=> DictHas(d2, o)
        /\ Stock(d1, o) = Stock(d2, o)

(***************************************************************************)
(* C1: in every reachable state no ledger entry has quantity 0.            *)
(***************************************************************************)
C1_NoZeroEntry == \A i \in 1..Len(stock_data) : stock_data[i].v # 0

(***************************************************************************)
(* C2: in every reachable state every ledger quantity is >= 0, also after  *)
(* load_data on any file.                                                  *)
(***************************************************************************)
C2_NoNegativeQuantity == \A i \in 1..Len(stock_data) : stock_data[i].v >= 0

(***************************************************************************)
(* C3: add_item with a non-empty name and a quantity >= 0 succeeds, the    *)
(* item's quantity grows by exactly qty (its entry is created when it was  *)
(* absent) and no other item changes.                                      *)
(***************************************************************************)
C3_AddIncreasesByQty ==
    [][\A item \in {i \in ItemArgs : ValidItem(i)},
          qty \in {n \in QtyArgs : IsInt(n) /\ IntOf(n) >= 0} :
         (last'.op = "add_item" /\ add_item(item, qty))
         => /\ last'.exc = "none"
            /\ DictHas(stock_data', item.s)
            /\ Stock(stock_data', item.s) = Stock(stock_data, item.s) + IntOf(qty)
            /\ OthersUnchanged(stock_data, stock_data', item.s)]_vars

\* add_item has just created banana's entry beside apple's and filled it.
C3_Witness ==
    /\ last.op = "add_item" /\ last.exc = "none"
    /\ stock_data = <<[k |-> "apple", v |-> 1], [k |-> "banana", v |-> MaxQty]>>

(***************************************************************************)
(* C4: remove_item of 0 < qty <= q from an item of quantity q > 0          *)
(* succeeds and leaves q - qty; at 0 the item is gone from the ledger,     *)
(* from the report and from every low-stock list; no other item changes.   *)
(***************************************************************************)
C4_RemoveDecreasesByQty ==
    [][\A item \in {i \in ItemArgs : ValidItem(i)},
          qty \in {n \in QtyArgs : IsInt(n) /\ IntOf(n) > 0} :
         (/\ last'.op = "remove_item"
          /\ DictHas(stock_data, item.s)
          /\ IntOf(qty) <= DictAt(stock_data, item.s)
          /\ remove_item(item, qty))
         => LET q == DictAt(stock_data, item.s) IN
            /\ last'.exc = "none"
            /\ Stock(stock_data', item.s) = q - IntOf(qty)
            /\ q - IntOf(qty) = 0 =>
                 /\ item.s \notin DictKeys(stock_data')
                 /\ \A i \in 1..Len(stock_data') :
                       Report(stock_data').lines[i].name # item.s
                 /\ \A t \in 0..(MaxThreshold + DefaultThreshold) :
                       \A i \in 1..Len(LowItems(stock_data', t)) :
                          LowItems(stock_data', t)[i] # item.s
            /\ q - IntOf(qty) # 0 => DictHas(stock_data', item.s)
            /\ OthersUnchanged(stock_data, stock_data', item.s)]_vars

\* remove_item has just taken the last of apple, and banana is still there.
C4_Witness ==
    /\ last.op = "remove_item" /\ last.exc = "none"
    /\ stock_data = <<[k |-> "banana", v |-> MaxQty]>>
    /\ snapshot = [valid |-> TRUE,
                   ledger |-> <<[k |-> "apple", v |-> MaxQty],
                                [k |-> "banana", v |-> MaxQty]>>]

(***************************************************************************)
(* C5, as claimed: remove_item with a non-empty name and qty > 0 fails     *)
(* with NotFound when the item has no entry and with InsufficientStock     *)
(* when qty exceeds its quantity, the ledger unchanged; and NotFound,      *)
(* InsufficientStock and InvalidArgument are distinct outcomes: two        *)
(* failures of remove_item of different kinds never raise the same         *)
(* exception.                                                              *)
(***************************************************************************)
C5_RemoveErrorsDistinct ==
    [][/\ \A item \in {i \in ItemArgs : ValidItem(i)},
             qty \in {n \in QtyArgs : IsInt(n) /\ IntOf(n) > 0} :
            (last'.op = "remove_item" /\ remove_item(item, qty))
            => /\ ~DictHas(stock_data, item.s) =>
                    ErrorKind(last') = "NotFound" /\ stock_data' = stock_data
               /\ (DictHas(stock_data, item.s)
                   /\ IntOf(qty) > DictAt(stock_data, item.s)) =>
                    ErrorKind(last') = "InsufficientStock" /\ stock_data' = stock_data
       /\ (/\ last.op = "remove_item" /\ last'.op = "remove_item"
           /\ last.exc # "none" /\ last'.exc # "none"
           /\ ErrorKind(last) # ErrorKind(last'))
          => last.exc # last'.exc]_vars

(***************************************************************************)
(* C5, as amended: remove_item with a non-empty name and qty > 0 fails     *)
(* with NotFound, a KeyError, when the item has no entry and with          *)
(* InsufficientStock, a ValueError, when qty exceeds its quantity, the     *)
(* ledger unchanged; two failures of remove_item of different kinds raise  *)
(* the same exception only when they are an InsufficientStock and an       *)
(* InvalidArgument, both of them ValueError.                               *)
(***************************************************************************)
C5_RemoveFailures ==
    [][/\ \A item \in {i \in ItemArgs : ValidItem(i)},
             qty \in {n \in QtyArgs : IsInt(n) /\ IntOf(n) > 0} :
            (last'.op = "remove_item" /\ remove_item(item, qty))
            => /\ ~DictHas(stock_data, item.s) =>
                    /\ ErrorKind(last') = "NotFound" /\ last'.exc = "KeyError"
                    /\ stock_data' = stock_data
               /\ (DictHas(stock_data, item.s)
                   /\ IntOf(qty) > DictAt(stock_data, item.s)) =>
                    /\ ErrorKind(last') = "InsufficientStock"
                    /\ last'.exc = "ValueError"
                    /\ stock_data' = stock_data
       /\ (/\ last.op = "remove_item" /\ last'.op = "remove_item"
           /\ last.exc # "none" /\ last'.exc # "none"
           /\ ErrorKind(last) # ErrorKind(last')
           /\ last.exc = last'.exc)
          => /\ last.exc = "ValueError"
             /\ {ErrorKind(last), ErrorKind(last')}
                  = {"InsufficientStock", "InvalidArgument"}]_vars

\* remove_item has just refused to take more of apple than the ledger holds.
C5_Witness ==
    /\ last.op = "remove_item" /\ last.exc = "ValueError"
    /\ ErrorKind(last) = "InsufficientStock"
    /\ stock_data = <<[k |-> "apple", v |-> MaxQty]>>

(***************************************************************************)
(* C6, as claimed: add_item with an empty name or qty < 0, and remove_item *)
(* with an empty name or qty <= 0, fail with InvalidArgument, the ledger   *)
(* unchanged; and InvalidArgument is one error kind: two such failures     *)
(* always raise the same exception.                                        *)
(***************************************************************************)
C6_InvalidArgumentOneKind ==
    [][/\ \A item \in ItemArgs, qty \in QtyArgs :
            (\/ /\ last'.op = "add_item"
                /\ (IsStr(item) /\ item.s = "") \/ (IsInt(qty) /\ IntOf(qty) < 0)
                /\ add_item(item, qty)
             \/ /\ last'.op = "remove_item"
                /\ (IsStr(item) /\ item.s = "") \/ (IsInt(qty) /\ IntOf(qty) <= 0)
                /\ remove_item(item, qty))
            => ErrorKind(last') = "InvalidArgument" /\ stock_data' = stock_data
       /\ (/\ last.op \in {"add_item", "remove_item"}
           /\ last'.op \in {"add_item", "remove_item"}
           /\ ErrorKind(last) = "InvalidArgument"
           /\ ErrorKind(last') = "InvalidArgument")
          => last.exc = last'.exc]_vars

(***************************************************************************)
(* C6, as amended: add_item with an empty name or qty < 0, and remove_item *)
(* with an empty name or qty <= 0, fail with InvalidArgument, the ledger   *)
(* unchanged, whatever the ledger holds; the exception is a TypeError when *)
(* the name is not a non-empty string and a ValueError otherwise.          *)
(***************************************************************************)
C6_InvalidArgumentRaised ==
    [][\A item \in ItemArgs, qty \in QtyArgs :
         (\/ /\ last'.op = "add_item"
             /\ (IsStr(item) /\ item.s = "") \/ (IsInt(qty) /\ IntOf(qty) < 0)
             /\ add_item(item, qty)
          \/ /\ last'.op = "remove_item"
             /\ (IsStr(item) /\ item.s = "") \/ (IsInt(qty) /\ IntOf(qty) <= 0)
             /\ remove_item(item, qty))
         => /\ ErrorKind(last') = "InvalidArgument"
            /\ stock_data' = stock_data
            /\ last'.exc = IF ValidItem(item) THEN "ValueError" ELSE "TypeError"]_vars

\* add_item has just refused a negative quantity for an item in stock.
C6_Witness ==
    /\ last.op = "add_item" /\ last.exc = "ValueError"
    /\ last.msg = "qty must be non-negative"
    /\ stock_data = <<[k |-> "apple", v |-> MaxQty]>>

(***************************************************************************)
(* C7: a load_data that follows a successful save_data, with no write to   *)
(* the file in between, leaves the ledger that was saved: the same keys    *)
(* with the same quantities, whatever the ledger held in between.          *)
(***************************************************************************)
C7_RoundTrip ==
    (last.op = "load_data" /\ snapshot.valid)
    => last.exc = "none" /\ stock_data = snapshot.ledger

\* load_data has just read back a saved ledger of two entries, one of them
\* of quantity 0.
C7_Witness ==
    /\ last.op = "load_data" /\ snapshot.valid
    /\ stock_data = <<[k |-> "banana", v |-> 0], [k |-> "apple", v |-> MaxQty]>>

(***************************************************************************)
(* C8: load_data never raises; on a missing file, on malformed JSON and    *)
(* on a top-level value that is no object it leaves the ledger empty.      *)
(***************************************************************************)
C8_LoadNeverRaises ==
    last.op = "load_data"
    => /\ last.exc = "none"
       /\ (file = NoFile \/ ~WellFormed(file) \/ file.t # "object")
          => stock_data = <<>>

\* load_data has just read a file whose top-level value is an array.
C8_Witness ==
    /\ last.op = "load_data" /\ last.exc = "none"
    /\ file = JArray
    /\ stock_data = <<>>

(***************************************************************************)
(* C9: on a file that holds a key/value object, load_data leaves exactly   *)
(* the pairs whose key is a string and whose value int() accepts.          *)
(***************************************************************************)
\* The pairs of the text the claim keeps.
RECURSIVE GoodPairs(_, _)
GoodPairs(ms, acc) ==
    IF ms = <<>> THEN acc
    ELSE IF /\ Head(ms).key.t = "string"
            /\ IntCoerce(Decode(Head(ms).val)).exc = "none"
    THEN GoodPairs(Tail(ms), DictSet(acc, Head(ms).key.s,
                                     IntCoerce(Decode(Head(ms).val)).n))
    ELSE GoodPairs(Tail(ms), acc)

C9_LoadKeepsGoodPairs ==
    (last.op = "load_data" /\ file.t = "object")
    => /\ DictKeys(stock_data) = DictKeys(GoodPairs(file.members, <<>>))
       /\ \A k \in DictKeys(stock_data) :
             DictAt(stock_data, k) = DictAt(GoodPairs(file.members, <<>>), k)

(***************************************************************************)
(* C10: check_low_items(threshold) with threshold >= 0 returns exactly the *)
(* names whose quantity is strictly below the threshold, each once, and    *)
(* leaves the ledger alone; a negative threshold fails with                *)
(* InvalidArgument; with no argument the threshold is 5.                   *)
(***************************************************************************)
C10_LowItemsExact ==
    [][\A arg \in {a \in ThresholdArgs : a = Omitted \/ IsInt(a)} :
         (last'.op = "check_low_items" /\ check_low_items(arg))
         => LET threshold == IF arg = Omitted THEN 5 ELSE IntOf(arg) IN
            /\ stock_data' = stock_data
            /\ threshold < 0 => ErrorKind(last') = "InvalidArgument"
            /\ threshold >= 0 =>
                 /\ last'.exc = "none"
                 /\ {last'.ret.items[i] : i \in 1..Len(last'.ret.items)}
                      = {k \in DictKeys(stock_data) : DictAt(stock_data, k) < threshold}
                 /\ \A i, j \in 1..Len(last'.ret.items) :
                       last'.ret.items[i] = last'.ret.items[j] => i = j]_vars

\* check_low_items() has just returned [apple] on {apple: 3, banana: 5}.
C10_Witness ==
    /\ last.op = "check_low_items" /\ last.exc = "none"
    /\ last.ret = PyList(<<"apple">>)
    /\ stock_data = <<[k |-> "apple", v |-> 3], [k |-> "banana", v |-> 5]>>

====
